---- MODULE Spec2Model ----
(***************************************************************************)
(* Model of the user-account routes of user_service/app/routes/user.py:    *)
(* register, login, read_users_me, update_user, delete_user_me and         *)
(* read_users_all, behind the router's declaration-order dispatch and the  *)
(* bearer-token check get_current_user.                                    *)
(*                                                                         *)
(* The store is the single "user" relation, a set of rows.  A token is the *)
(* signed claims set {sub, exp}; the server keeps no token state, so the   *)
(* tokens that exist are the ones clients hold (variable held).            *)
(***************************************************************************)
EXTENDS Integers, FiniteSets, Sequences, TLC

VARIABLES
    users,      \* the "user" relation: a set of rows [id, username, email, password_hash]
    now,        \* the clock the token expiry is compared against
    held,       \* tokens in clients' hands: [tok, rid], rid the row it was issued for (0: none, -1: deleted)
    inflight,   \* requests between their SELECT and their commit (concurrent specification)
    resp        \* the request answered by the last step, with its response

vars == <<users, now, held, inflight, resp>>

(* ------------------------------ bounds -------------------------------- *)
MaxId == 2          \* ids the store assigns are 1..MaxId
MaxTime == 1        \* the clock runs 0..MaxTime
MaxHeld == 2        \* tokens clients keep at one time
MaxInFlight == 2    \* concurrent requests between SELECT and commit

Ids == 1..MaxId
Usernames == {"alice", "bob"}
Emails == {"a@x.com", "b@x.com"}
Passwords == {"p1", "p2"}

(* --------------------------- token codec ------------------------------ *)
\* Lifetime of a token, in clock ticks.
TokenTTL == 1

\* create_access_token(data={"sub": s}) at time t: the signed claims set.
create_access_token(sub, t) == [sub |-> sub, exp |-> t + TokenTTL, sig |-> "ok"]

\* The request without an Authorization header.
NoToken == [sub |-> "", exp |-> 0, sig |-> "none"]

\* A token signed with another key.
ForgedTokens == {[sub |-> s, exp |-> MaxTime + TokenTTL, sig |-> "bad"] : s \in {"alice"}}

\* decode_access_token(token) at time t: the claims, or nothing (the empty
\* set) when the token is malformed, tampered or expired.
decode_access_token(token, t) ==
    IF token.sig = "ok" /\ t < token.exp THEN {[sub |-> token.sub]} ELSE {}

(* ------------------------- credential verifier ------------------------ *)
\* The stored hash of a password.
Hash(password) == <<"hash", password>>

verify_password(password, password_hash) == password_hash = Hash(password)

\* create_user(user, db) with the id the store assigns: the new row, or
\* nothing when the username is taken (Conflict).
create_user(user, db, newid) ==
    IF \E r \in db : r.username = user.username
    THEN {}
    ELSE {[id |-> newid, username |-> user.username, email |-> user.email,
           password_hash |-> Hash(user.password)]}

\* authenticate_user(db, username, password), row being the row the lookup
\* by username returned: the row on a password match, nothing otherwise.
authenticate_user(db, username, password, rows) ==
    {r \in rows : r \in db /\ r.username = username
                   /\ verify_password(password, r.password_hash)}

(* ------------------------------ responses ----------------------------- *)
UserOut(r) == [id |-> r.id, username |-> r.username, email |-> r.email]

\* What a handler leaves: the HTTP status and detail, the token and the
\* records of the body, and the store after the request.
Result(status, detail, token, body, db) ==
    [status |-> status, detail |-> detail, access_token |-> token, body |-> body, db |-> db]

HTTPException(status, detail, db) == Result(status, detail, {}, {}, db)

\* oauth2_scheme: the bearer token of the Authorization header is required.
oauth2_scheme(token) == token.sig # "none"

\* get_current_user(token): the payload, or nothing (the caller raises 401).
get_current_user(token, t) == decode_access_token(token, t)

Unauthenticated(db) == HTTPException(401, "Invalid authentication credentials", db)
NotAuthenticated(db) == HTTPException(401, "Not authenticated", db)
UserNotFound(db) == HTTPException(404, "User not found", db)

\* db.query(User).filter(User.id == id, User.username == sub): id is the
\* primary key, so at most one row matches.
QueryOwned(db, id, sub) == {r \in db : r.id = id /\ r.username = sub}

(* ------------------------------ handlers ------------------------------ *)
\* POST /register
register(user, token, db, newid, t) ==
    IF ~oauth2_scheme(token) THEN NotAuthenticated(db)
    ELSE IF get_current_user(token, t) = {} THEN Unauthenticated(db)
    ELSE LET created == create_user(user, db, newid) IN
         IF created = {} THEN HTTPException(409, "Username already registered", db)
         ELSE LET db_user == CHOOSE r \in created : TRUE IN
              Result(200, "User registered successfully",
                     {create_access_token(db_user.username, t)},
                     {UserOut(db_user)}, db \cup created)

\* login with the token signed for the email of the row instead of its username.
login_SubjectIsEmail(user, db, rows, t) ==
    LET found == authenticate_user(db, user.username, user.password, rows) IN
    IF found = {} THEN HTTPException(401, "Invalid credentials", db)
    ELSE LET db_user == CHOOSE r \in found : TRUE IN
         Result(200, "", {create_access_token(db_user.email, t)}, {}, db)

\* login that answers an unknown username with its own status and detail.
login_RevealsUnknownUser(user, db, rows, t) ==
    LET found == authenticate_user(db, user.username, user.password, rows) IN
    IF rows = {} THEN HTTPException(404, "User not found", db)
    ELSE IF found = {} THEN HTTPException(401, "Invalid credentials", db)
    ELSE LET db_user == CHOOSE r \in found : TRUE IN
         Result(200, "", {create_access_token(db_user.username, t)}, {}, db)

\* POST /login, rows being what the lookup by username returned
login(user, db, rows, t) ==
    LET found == authenticate_user(db, user.username, user.password, rows) IN
    IF found = {} THEN HTTPException(401, "Invalid credentials", db)
    ELSE LET db_user == CHOOSE r \in found : TRUE IN
         Result(200, "", {create_access_token(db_user.username, t)}, {}, db)

\* GET /{id}
read_users_me(id, token, db, t) ==
    IF ~oauth2_scheme(token) THEN NotAuthenticated(db)
    ELSE LET current_user == get_current_user(token, t) IN
         IF current_user = {} THEN Unauthenticated(db)
         ELSE LET sub == (CHOOSE p \in current_user : TRUE).sub
                  found == QueryOwned(db, id, sub) IN
              IF found = {} THEN UserNotFound(db)
              ELSE Result(200, "", {}, {UserOut(r) : r \in found}, db)

\* The write of update_user, also storing the password of the request body.
UpdateWrite_StoresPassword(db_user, user, db) ==
    LET cur == {r \in db : r.id = db_user.id} IN
    IF cur = {} THEN HTTPException(500, "Internal Server Error", db)
    ELSE LET row == CHOOSE r \in cur : TRUE
             updated == [row EXCEPT !.username = user.username, !.email = user.email,
                                    !.password_hash = Hash(user.password)] IN
         Result(200, "", {}, {UserOut(updated)}, (db \ {row}) \cup {updated})

\* Lines 113-116: the assignments, commit and refresh on the row loaded as
\* db_user.  The UPDATE names the row by its primary key and sets the
\* attributes that differ from the loaded ones; it fails when the row is gone.
UpdateWrite(db_user, user, db) ==
    LET cur == {r \in db : r.id = db_user.id} IN
    IF cur = {} THEN HTTPException(500, "Internal Server Error", db)
    ELSE LET row == CHOOSE r \in cur : TRUE
             updated == [row EXCEPT
                 !.username = IF user.username # db_user.username
                              THEN user.username ELSE row.username,
                 !.email = IF user.email # db_user.email
                           THEN user.email ELSE row.email] IN
         Result(200, "", {}, {UserOut(updated)}, (db \ {row}) \cup {updated})

\* PUT /{id}
update_user(id, user, token, db, t) ==
    IF ~oauth2_scheme(token) THEN NotAuthenticated(db)
    ELSE LET current_user == get_current_user(token, t) IN
         IF current_user = {} THEN Unauthenticated(db)
         ELSE LET sub == (CHOOSE p \in current_user : TRUE).sub
                  found == QueryOwned(db, id, sub) IN
              IF found = {} THEN UserNotFound(db)
              ELSE UpdateWrite(CHOOSE r \in found : TRUE, user, db)

\* The write of delete_user_me without its commit: the row stays.
DeleteWrite_NoCommit(db_user, strict, db) ==
    Result(200, "User deleted successfully", {}, {}, db)

\* Lines 139-140: the DELETE names the row by its primary key.  When the row
\* is gone the store either reports the stale row (strict) or only warns.
DeleteWrite(db_user, strict, db) ==
    LET cur == {r \in db : r.id = db_user.id} IN
    IF cur = {} /\ strict THEN HTTPException(500, "Internal Server Error", db)
    ELSE Result(200, "User deleted successfully", {}, {}, db \ cur)

\* DELETE /{id}
delete_user_me(id, token, db, t) ==
    IF ~oauth2_scheme(token) THEN NotAuthenticated(db)
    ELSE LET current_user == get_current_user(token, t) IN
         IF current_user = {} THEN Unauthenticated(db)
         ELSE LET sub == (CHOOSE p \in current_user : TRUE).sub
                  found == QueryOwned(db, id, sub) IN
              IF found = {} THEN UserNotFound(db)
              ELSE DeleteWrite(CHOOSE r \in found : TRUE, TRUE, db)

\* GET /all
read_users_all(token, db, t) ==
    IF ~oauth2_scheme(token) THEN NotAuthenticated(db)
    ELSE IF get_current_user(token, t) = {} THEN Unauthenticated(db)
    ELSE Result(200, "", {}, {UserOut(r) : r \in db}, db)

(* ------------------------------ routing ------------------------------- *)
\* The routes in the order the module declares them.
router ==
    << [method |-> "POST",   path |-> "register", endpoint |-> "register"],
       [method |-> "POST",   path |-> "login",    endpoint |-> "login"],
       [method |-> "GET",    path |-> "{id}",     endpoint |-> "read_users_me"],
       [method |-> "PUT",    path |-> "{id}",     endpoint |-> "update_user"],
       [method |-> "DELETE", path |-> "{id}",     endpoint |-> "delete_user_me"],
       [method |-> "GET",    path |-> "all",      endpoint |-> "read_users_all"] >>

\* A path parameter matches any one segment; a literal matches itself.
Matches(route, method, seg) ==
    route.method = method /\ (route.path = "{id}" \/ route.path = seg)

\* The first route that matches, in declaration order (0: none).
Dispatch(method, seg) ==
    LET hit == {i \in DOMAIN router : Matches(router[i], method, seg)} IN
    IF hit = {} THEN 0 ELSE CHOOSE i \in hit : \A j \in hit : i <= j

\* The path segments of the requests: the decimal ids and "all".
IdSegs == {ToString(i) : i \in 0..MaxId}
Segs == IdSegs \cup {"all"}

\* The id: int path parameter: the segment parsed, nothing when it is no integer.
ParseInt(seg) == {i \in 0..MaxId : ToString(i) = seg}

UnprocessableEntity(db) == HTTPException(422, "value is not a valid integer", db)

\* A GET request on /users/<seg>.
HttpGet(seg, token, db, t) ==
    LET i == Dispatch("GET", seg) IN
    IF i = 0 THEN HTTPException(404, "Not Found", db)
    ELSE IF router[i].endpoint = "read_users_me"
         THEN IF ~oauth2_scheme(token) THEN NotAuthenticated(db)
              ELSE IF ParseInt(seg) = {} THEN UnprocessableEntity(db)
              ELSE read_users_me(CHOOSE n \in ParseInt(seg) : TRUE, token, db, t)
         ELSE read_users_all(token, db, t)

GetEndpoint(seg) ==
    LET i == Dispatch("GET", seg) IN IF i = 0 THEN "none" ELSE router[i].endpoint

(* ------------------------------- state -------------------------------- *)
\* No request was answered by the step.
NoUser == [username |-> "", email |-> "", password |-> ""]
NoResp ==
    [method |-> "", path |-> "", endpoint |-> "", tok |-> NoToken, id |-> 0,
     user |-> NoUser, status |-> 0, detail |-> "", access_token |-> {}, body |-> {}]

\* The request and the response a handler gave it.
Answer(method, path, endpoint, tok, id, user, res) ==
    [method |-> method, path |-> path, endpoint |-> endpoint, tok |-> tok, id |-> id,
     user |-> user, status |-> res.status, detail |-> res.detail,
     access_token |-> res.access_token, body |-> res.body]

\* The token a deployment is bootstrapped with (register itself needs one):
\* signed for an operator who has no record.
BootToken == create_access_token("admin", 0)

LiveIds(db) == {r.id : r \in db}

\* The tokens a client can send: the ones held, a forged one, or none.
Presentable == {h.tok : h \in held} \cup ForgedTokens \cup {NoToken}

\* The client keeps the token of a response while it has room for it.
Keep(tokens, rid) ==
    IF tokens # {} /\ Cardinality(held) < MaxHeld
    THEN held \cup {[tok |-> t, rid |-> rid] : t \in tokens}
    ELSE held

\* A deleted row's tokens stay in their holders' hands, issued for a row that
\* is gone (rid -1).
Orphan(db, after) ==
    {[h EXCEPT !.rid = IF h.rid \in LiveIds(db) \ LiveIds(after) THEN -1 ELSE h.rid] : h \in held}

UserCreate == [username : Usernames, email : Emails, password : Passwords]
UserLogin == [username : Usernames, password : Passwords]

Init ==
    /\ users = {}
    /\ now = 0
    /\ held = {[tok |-> BootToken, rid |-> 0]}
    /\ inflight = {}
    /\ resp = NoResp

(* ------------------------ requests, one at a time --------------------- *)
Register(user, token, newid) ==
    LET res == register(user, token, users, newid, now) IN
    /\ IF res.status = 200 THEN newid \notin LiveIds(users) ELSE newid = 1
    /\ users' = res.db
    /\ held' = Keep(res.access_token, newid)
    /\ resp' = Answer("POST", "register", "register", token, 0,
                      [username |-> user.username, email |-> "", password |-> user.password],
                      res)
    /\ UNCHANGED <<now, inflight>>

Login(user, rows) ==
    LET res == login(user, users, rows, now) IN
    /\ users' = res.db
    /\ held' = Keep(res.access_token, IF rows = {} THEN 0 ELSE (CHOOSE r \in rows : TRUE).id)
    /\ resp' = Answer("POST", "login", "login", NoToken, 0,
                      [username |-> user.username, email |-> "", password |-> user.password],
                      res)
    /\ UNCHANGED <<now, inflight>>

\* .first() of the lookup by username: one of the matching rows, or nothing.
First(rows) == IF rows = {} THEN {{}} ELSE {{r} : r \in rows}

Get(seg, token) ==
    LET res == HttpGet(seg, token, users, now) IN
    /\ users' = res.db
    /\ resp' = Answer("GET", seg, GetEndpoint(seg), token,
                      IF ParseInt(seg) = {} THEN 0 ELSE CHOOSE n \in ParseInt(seg) : TRUE,
                      NoUser, res)
    /\ UNCHANGED <<now, held, inflight>>

UpdateUser(id, user, token) ==
    LET res == update_user(id, user, token, users, now) IN
    /\ users' = res.db
    /\ resp' = Answer("PUT", ToString(id), "update_user", token, id, NoUser, res)
    /\ UNCHANGED <<now, held, inflight>>

DeleteUserMe(id, token) ==
    LET res == delete_user_me(id, token, users, now) IN
    /\ users' = res.db
    /\ held' = Orphan(users, res.db)
    /\ resp' = Answer("DELETE", ToString(id), "delete_user_me", token, id, NoUser, res)
    /\ UNCHANGED <<now, inflight>>

\* Time passes.
Tick ==
    /\ now < MaxTime
    /\ now' = now + 1
    /\ resp' = NoResp
    /\ UNCHANGED <<users, held, inflight>>

Next ==
    \/ \E user \in UserCreate, token \in Presentable, newid \in Ids : Register(user, token, newid)
    \/ \E user \in UserLogin :
         \E rows \in First({r \in users : r.username = user.username}) : Login(user, rows)
    \/ \E seg \in Segs, token \in Presentable : Get(seg, token)
    \/ \E id \in Ids, user \in UserCreate, token \in Presentable : UpdateUser(id, user, token)
    \/ \E id \in Ids, token \in Presentable : DeleteUserMe(id, token)
    \/ Tick

Spec == Init /\ [][Next]_vars

(* ------------------------- concurrent requests ------------------------ *)
\* Lines 109-112 and 135-138: the token check and the SELECT of a PUT or a
\* DELETE.  A request that passes them is in flight until its commit.
SelectOwned(id, token, db, t) ==
    IF ~oauth2_scheme(token) THEN NotAuthenticated(db)
    ELSE LET current_user == get_current_user(token, t) IN
         IF current_user = {} THEN Unauthenticated(db)
         ELSE LET sub == (CHOOSE p \in current_user : TRUE).sub
                  found == QueryOwned(db, id, sub) IN
              IF found = {} THEN UserNotFound(db)
              ELSE Result(200, "", {}, found, db)

Begin(endpoint, method, slot, id, user, token) ==
    LET res == SelectOwned(id, token, users, now) IN
    /\ \A p \in inflight : p.slot # slot
    /\ IF res.status = 200
       THEN /\ inflight' = inflight \cup
                   {[slot |-> slot, endpoint |-> endpoint, id |-> id, user |-> user,
                     tok |-> token, db_user |-> CHOOSE r \in res.body : TRUE]}
            /\ resp' = NoResp
       ELSE /\ inflight' = inflight
            /\ resp' = Answer(method, ToString(id), endpoint, token, id, NoUser, res)
    /\ UNCHANGED <<users, now, held>>

UpdateBegin(slot, id, user, token) == Begin("update_user", "PUT", slot, id, user, token)

DeleteBegin(slot, id, token) == Begin("delete_user_me", "DELETE", slot, id, NoUser, token)

UpdateCommit(p) ==
    LET res == UpdateWrite(p.db_user, p.user, users) IN
    /\ p.endpoint = "update_user"
    /\ users' = res.db
    /\ inflight' = inflight \ {p}
    /\ resp' = Answer("PUT", ToString(p.id), "update_user", p.tok, p.id, NoUser, res)
    /\ UNCHANGED <<now, held>>

DeleteCommit(p, strict) ==
    LET res == DeleteWrite(p.db_user, strict, users) IN
    /\ p.endpoint = "delete_user_me"
    /\ users' = res.db
    /\ inflight' = inflight \ {p}
    /\ held' = Orphan(users, res.db)
    /\ resp' = Answer("DELETE", ToString(p.id), "delete_user_me", p.tok, p.id, NoUser, res)
    /\ UNCHANGED now

\* The bodies of the concurrent requests: the usernames, one email and password.
UserC == {[username |-> u, email |-> "a@x.com", password |-> "p1"] : u \in Usernames}

NextC ==
    \/ \E user \in UserC, token \in Presentable, newid \in Ids : Register(user, token, newid)
    \/ \E slot \in 1..MaxInFlight, id \in Ids, user \in UserC, token \in Presentable :
         UpdateBegin(slot, id, user, token)
    \/ \E p \in inflight : UpdateCommit(p)
    \/ \E slot \in 1..MaxInFlight, id \in Ids, token \in Presentable : DeleteBegin(slot, id, token)
    \/ \E p \in inflight, strict \in BOOLEAN : DeleteCommit(p, strict)

SpecC == Init /\ [][NextC]_vars

(* ------------------------------ properties ---------------------------- *)
Valid(token) == decode_access_token(token, now) # {}

OwnedEndpoints == {"read_users_me", "update_user", "delete_user_me"}

\* C1: a Get-by-id, Update or Delete request carrying a valid token issued
\* for a live user A and the id of another live user B ends in 404 and leaves
\* the store as it was (B's record is neither returned, modified nor removed).
C1_NoCrossUserAccess ==
    [][\A h \in held, a \in users, b \in users :
          ( /\ h.rid = a.id /\ a.id # b.id /\ Valid(h.tok)
            /\ \A g \in held : g.tok = h.tok => g.rid = h.rid
            /\ resp'.endpoint \in OwnedEndpoints
            /\ resp'.tok = h.tok /\ resp'.id = b.id )
          => (resp'.status = 404 /\ resp'.body = {} /\ users' = users)]_vars

\* C2: a GET /all request carrying a valid token is dispatched to the
\* list-all handler and returns exactly the records live in the store.
C2_ListAllReturnsStore ==
    (resp.method = "GET" /\ resp.path = "all" /\ Valid(resp.tok))
    => ( /\ resp.endpoint = "read_users_all"
         /\ resp.status = 200
         /\ resp.body = {UserOut(r) : r \in users} )

IsGuardedRequest(r) ==
    \/ r.endpoint = "register"
    \/ r.method \in {"PUT", "DELETE"}
    \/ r.method = "GET" /\ r.path \in IdSegs \cup {"all"}

\* C4: Register, Get-by-id, Update, Delete and List-all answer 401 when the
\* token is invalid or expired, whatever the id, issue no token and leave
\* the store unchanged.
C4_InvalidTokenIs401 ==
    [][(IsGuardedRequest(resp') /\ ~Valid(resp'.tok))
        => (resp'.status = 401 /\ resp'.access_token = {} /\ users' = users)]_vars

\* C5: no two live user records have the same username.
C5_UsernamesUnique ==
    \A r1 \in users, r2 \in users : r1.username = r2.username => r1 = r2

\* C6: a Login for a username that does not exist and a Login with a wrong
\* password for one that does get the same answer: 401 with the same detail,
\* no token, and the store unchanged.
C6_LoginFailuresIndistinguishable ==
    [][LET u == resp'.user.username
           pw == resp'.user.password
           named == {r \in users : r.username = u} IN
       (resp'.endpoint = "login"
        /\ (named = {} \/ \A r \in named : ~verify_password(pw, r.password_hash)))
       => ( /\ resp'.status = 401
            /\ resp'.detail = "Invalid credentials"
            /\ resp'.access_token = {}
            /\ resp'.body = {}
            /\ users' = users /\ held' = held )]_vars

C6_Witness ==
    /\ resp.endpoint = "login" /\ resp.status = 401
    /\ \E r \in users : r.username = resp.user.username
    /\ \E r \in users : r.username # resp.user.username

\* C7: on the state a successful Delete of id i leaves, a second Delete of i
\* with the same token answers 404 and leaves the store unchanged.
C7_SecondDeleteNotFound ==
    (resp.endpoint = "delete_user_me" /\ resp.status = 200)
    => LET res == delete_user_me(resp.id, resp.tok, users, now) IN
       res.status = 404 /\ res.db = users

C7_Witness ==
    /\ resp.endpoint = "delete_user_me" /\ resp.status = 200
    /\ users # {}

\* C8: a successful Update of record i leaves the id and password_hash of
\* record i and every other record unchanged; the record it returns is the
\* one stored.
C8_UpdateFrame ==
    [][(resp'.endpoint = "update_user" /\ resp'.status = 200)
        => LET i == resp'.id IN
           /\ {r \in users' : r.id # i} = {r \in users : r.id # i}
           /\ Cardinality({r \in users' : r.id = i}) = 1
           /\ \E old \in users, new \in users' :
                 /\ old.id = i /\ new.id = i
                 /\ new.password_hash = old.password_hash
                 /\ resp'.body = {UserOut(new)}]_vars

C8_Witness ==
    /\ resp.endpoint = "update_user" /\ resp.status = 200
    /\ Cardinality(users) = 2
    /\ \E r \in users : r.id = resp.id /\ r.password_hash = Hash("p2") /\ r.email = "b@x.com"

\* C9: the record an Update or a Delete writes has the requested id and the
\* token's subject as its username at the moment of the write.
C9_WriteOnOwnedRecord ==
    [][\A p \in inflight :
          (p \notin inflight' /\ resp'.status = 200 /\ users' # users)
          => \E r \in users : r.id = p.id /\ r.username = p.tok.sub]_vars

\* After a successful Update of a record with a token issued for it, the
\* same token still reads the record.
C10_KeepsAccessAfterRename ==
    (resp.endpoint = "update_user" /\ resp.status = 200
     /\ \E h \in held : h.tok = resp.tok /\ h.rid = resp.id)
    => read_users_me(resp.id, resp.tok, users, now).status = 200

\* C10: a token gives access only to the record it was issued for, and the
\* owner of a record keeps access to it with the token they hold after
\* renaming it.
C10_TokenBoundToRecord ==
    [][ /\ \A h \in held :
             ( /\ h.rid \notin {0, resp'.id} /\ Valid(h.tok)
               /\ \A g \in held : g.tok = h.tok => g.rid = h.rid
               /\ resp'.endpoint \in OwnedEndpoints /\ resp'.tok = h.tok )
             => resp'.status # 200
        /\ C10_KeepsAccessAfterRename' ]_vars
====
